---- MODULE Spec2Model ----
(***************************************************************************)
(* Model of src/evolutionary_algorithm.py: an evolutionary algorithm for   *)
(* the travelling salesman problem.                                        *)
(*                                                                         *)
(* Spec      : one call of evolution(), statement by statement.            *)
(* SpecOps   : the route operators (generate_random_route, two_opt_swap,   *)
(*             order_one_crossover) applied to arbitrary permutations.     *)
(* SpecInit  : the loop of initialise_population alone, with the fairness  *)
(*             a sequential program and a uniform shuffle give.            *)
(* SpecRoutes: Spec and SpecOps side by side.                              *)
(*                                                                         *)
(* Python lists are 0-based, TLA+ sequences 1-based: city c of a route is  *)
(* looked up at cities_map[c + 1], and a position or cut point keeps its   *)
(* Python value (first, last, i) and is shifted where it indexes.          *)
(* Probabilities and the draws of random.random() are in tenths.           *)
(***************************************************************************)
EXTENDS Integers, Sequences, FiniteSets

VARIABLES
    cities_map,                   \* list of [x, y] coordinates (read only)
    city_list,                    \* the caller's list object, shuffled in place
    population_size,
    selection_size,
    termination_max_generations,
    mutation_probability,
    recombination_probability,
    shortest_route,               \* what the name is bound to: the city_list object or a route of its own
    shortest_cost,
    generation,
    population,
    tournament_population,        \* the local list tournament_selection builds
    parents,
    offspring,
    i,
    pc,                           \* where evolution() stands
    err,                          \* the exception that ended the run, "" if none
    op,                           \* SpecOps: the operator that was applied
    route1,
    route2,
    first,
    last,
    new_route

vars == << cities_map, city_list, population_size, selection_size,
           termination_max_generations, mutation_probability,
           recombination_probability, shortest_route, shortest_cost, generation,
           population, tournament_population, parents, offspring, i, pc, err,
           op, route1, route2, first, last, new_route >>

config_vars == << cities_map, population_size, selection_size,
                  termination_max_generations, mutation_probability,
                  recombination_probability >>

ops_vars == << op, route1, route2, first, last, new_route >>

(***************************************************************************)
(* Bounds and inputs                                                       *)
(***************************************************************************)
MaxPop == 2
MaxSel == 2
MaxGen == 2
MaxN == 4

\* The coordinates a run may be given: every prefix of this list. All pairwise
\* distances are whole numbers (a 3 x 4 rectangle), so math.sqrt is exact.
AllCities == << <<0, 0>>, <<3, 4>>, <<3, 0>>, <<0, 4>> >>

\* Probabilities in tenths: -0.5, 0.3, 1.0, 1.5
Rates == {-5, 3, 10, 15}

\* The mutation probabilities tried: 0.3 (line 191) and 1.5
MutationRates == {3, 15}

\* Values of random.random(), in [0.0, 1.0), in tenths: 0.0, 0.5, 0.9
Draws == {0, 5, 9}

(***************************************************************************)
(* Python helpers                                                          *)
(***************************************************************************)
Range(s) == { s[k] : k \in 1..Len(s) }

Min(a, b) == IF a < b THEN a ELSE b

\* s[a:b] for 0 <= a and 0 <= b
PySlice(s, a, b) == SubSeq(s, a + 1, Min(b, Len(s)))

\* the sequences of k distinct elements of S, in every order
RECURSIVE DistinctSeqs(_, _)
DistinctSeqs(S, k) ==
    IF k = 0 THEN { <<>> }
    ELSE UNION { { <<x>> \o p : p \in DistinctSeqs(S \ {x}, k - 1) } : x \in S }

\* random.sample(s, k) for 0 <= k <= len(s): k elements at distinct positions
RandomSample(s, k) ==
    { [j \in 1..k |-> s[p[j]]] : p \in DistinctSeqs(1..Len(s), k) }

\* random.shuffle(s): the elements of s in every order
RandomShuffle(s) == RandomSample(s, Len(s))

\* math.sqrt, on the perfect squares the coordinates of AllCities give
ISqrt(n) == CHOOSE r \in 0..n : r * r = n

(***************************************************************************)
(* Cost of a route                                                         *)
(***************************************************************************)
distance_between_coords(x1, x2, y1, y2) ==
    ISqrt((x2 - x1) * (x2 - x1) + (y2 - y1) * (y2 - y1))

get_cost_between_cities(cmap, city_1, city_2) ==
    distance_between_coords(cmap[city_1 + 1][1], cmap[city_2 + 1][1],
                            cmap[city_1 + 1][2], cmap[city_2 + 1][2])

RECURSIVE CostFrom(_, _, _)
CostFrom(route, cmap, k) ==
    IF k >= Len(route) THEN 0
    ELSE get_cost_between_cities(cmap, route[k], route[k + 1])
         + CostFrom(route, cmap, k + 1)

get_cost_of_route(route, cmap) ==
    CostFrom(route, cmap, 1)
    + get_cost_between_cities(cmap, route[Len(route)], route[1])

get_list_of_cities(cmap) == [k \in 1..Len(cmap) |-> k - 1]

(***************************************************************************)
(* Route operators, as functions of the random values they draw            *)
(***************************************************************************)
\* The lists generate_random_route can leave in city_list (and return: the
\* result is the argument object itself, changed in place).
generate_random_route(cl) ==
    { PySlice(cl, 0, 1) \o c : c \in RandomShuffle(PySlice(cl, 1, Len(cl))) }

\* random_cities = [a, b], two distinct positions of route (0-based)
two_opt_swap(route, a, b) ==
    [route EXCEPT ![a + 1] = route[b + 1], ![b + 1] = route[a + 1]]

\* the loop "for city in route2: if city not in new_route: append"
RECURSIVE AppendMissing(_, _, _)
AppendMissing(child, r2, k) ==
    IF k > Len(r2) THEN child
    ELSE AppendMissing(IF r2[k] \in Range(child) THEN child
                       ELSE Append(child, r2[k]), r2, k + 1)

\* order_one_crossover without the test "city not in new_route"
order_one_crossover_unchecked(r1, r2, f, l) ==
    PySlice(r1, f, l) \o r2

\* order_one_crossover with the segment cut one city short
order_one_crossover_short(r1, r2, f, l) ==
    AppendMissing(PySlice(r1, f, l - 1), r2, 1)

order_one_crossover(r1, r2, f, l) ==
    AppendMissing(PySlice(r1, f, l), r2, 1)

\* the loop of tournament_select_route over its sample
RECURSIVE ShortestFrom(_, _, _, _)
ShortestFrom(cmap, selection, k, best) ==
    IF k > Len(selection) THEN best
    ELSE ShortestFrom(cmap, selection, k + 1,
                      IF get_cost_of_route(best, cmap)
                           > get_cost_of_route(selection[k], cmap)
                      THEN selection[k] ELSE best)

tournament_select_route(cmap, selection) ==
    ShortestFrom(cmap, selection, 1, selection[1])

\* list.sort(key = cost): stable, ascending
RECURSIVE InsertByCost(_, _, _)
InsertByCost(sorted, r, cmap) ==
    IF sorted = <<>> THEN << r >>
    ELSE IF get_cost_of_route(Head(sorted), cmap) <= get_cost_of_route(r, cmap)
         THEN << Head(sorted) >> \o InsertByCost(Tail(sorted), r, cmap)
         ELSE << r >> \o sorted

RECURSIVE SortByCost(_, _)
SortByCost(routes, cmap) ==
    IF routes = <<>> THEN <<>>
    ELSE InsertByCost(SortByCost(SubSeq(routes, 1, Len(routes) - 1), cmap),
                      routes[Len(routes)], cmap)

RECURSIVE Reverse(_)
Reverse(q) ==
    IF q = <<>> THEN <<>> ELSE Append(Reverse(Tail(q)), Head(q))

\* survivors with the sort the wrong way round (higher costs first)
survivors_descending(ps, offs, cmap, size) ==
    PySlice(Reverse(SortByCost(ps \o offs, cmap)), 0, size)

\* lines 152-158: parents + offspring, sorted by cost, cut to population_size
survivors(ps, offs, cmap, size) ==
    PySlice(SortByCost(ps \o offs, cmap), 0, size)

\* What one pass of the mutation loop (lines 146-149) can do to one route:
\* left alone when the draw is above the probability, swapped when it is not;
\* random.sample raises ValueError on a route shorter than 2.
MutateOne(route, rate) ==
    { [err |-> "", val |-> route] : d \in { d \in Draws : ~(d <= rate) } }
    \cup
    IF \E d \in Draws : d <= rate
    THEN IF Len(route) < 2
         THEN { [err |-> "ValueError", val |-> <<>>] }
         ELSE { [err |-> "", val |-> two_opt_swap(route, p[1], p[2])] :
                  p \in DistinctSeqs(0..(Len(route) - 1), 2) }
    ELSE {}

RECURSIVE MutationPass(_, _)
MutationPass(offs, rate) ==
    IF offs = <<>> THEN { [err |-> "", val |-> <<>>] }
    ELSE UNION { IF h.err # "" THEN { [err |-> h.err, val |-> <<>>] }
                 ELSE { [err |-> t.err,
                         val |-> IF t.err = "" THEN << h.val >> \o t.val ELSE <<>>] :
                          t \in MutationPass(Tail(offs), rate) } :
                 h \in MutateOne(Head(offs), rate) }

\* Lines 138-142, from slot k on: every way the offspring loop can end. When a
\* draw is within the probability, line 141 reads the name parent, which is
\* bound nowhere in the file (neither in evolution nor at module level):
\* NameError. When it is not, the slot appends nothing.
RECURSIVE OffspringLoop(_, _, _, _)
OffspringLoop(ps, rate, k, offs) ==
    IF ~(k < Len(ps) * 3) THEN { [err |-> "", i |-> k, val |-> offs] }
    ELSE (IF \E d \in Draws : d <= rate
          THEN { [err |-> "NameError", i |-> k, val |-> offs] } ELSE {})
         \cup
         (IF \E d \in Draws : ~(d <= rate)
          THEN OffspringLoop(ps, rate, k + 1, offs) ELSE {})

(***************************************************************************)
(* evolution(): lines 121-179                                              *)
(***************************************************************************)
\* the route the name shortest_route stands for
ShortestRoute ==
    IF shortest_route.alias THEN city_list ELSE shortest_route.val

\* the best so far replaced by every generation's best
improves_always(new_cost, cost) == TRUE

\* line 167: the test that replaces the best so far
improves(new_cost, cost) == new_cost < cost

Raise(e) ==
    /\ pc' = "error"
    /\ err' = e

\* Lines 122-124, and the call of initialise_population with its empty list.
Init ==
    /\ \E n \in 1..Len(AllCities) : cities_map = SubSeq(AllCities, 1, n)
    /\ city_list = get_list_of_cities(cities_map)
    /\ population_size \in 0..MaxPop
    /\ selection_size \in 0..MaxSel
    /\ termination_max_generations \in {0, MaxGen}
    /\ mutation_probability \in MutationRates
    /\ recombination_probability \in Rates
    /\ shortest_route = [alias |-> TRUE, val |-> <<>>]
    /\ shortest_cost = get_cost_of_route(city_list, cities_map)
    /\ generation = 1
    /\ population = <<>>
    /\ tournament_population = <<>>
    /\ parents = <<>>
    /\ offspring = <<>>
    /\ i = 0
    /\ pc = "initialise_population"
    /\ err = ""
    /\ op = "none"
    /\ route1 = <<>>
    /\ route2 = <<>>
    /\ first = 0
    /\ last = 0
    /\ new_route = <<>>

\* Lines 105-108: one pass of the loop of initialise_population. The shuffle
\* changes city_list itself; a copy is appended unless an equal route is there.
initialise_population_step ==
    /\ pc = "initialise_population"
    /\ Len(population) < population_size
    /\ \E r \in generate_random_route(city_list) :
         /\ city_list' = r
         /\ population' = IF r \in Range(population) THEN population
                          ELSE Append(population, r)
    /\ UNCHANGED << config_vars, ops_vars, shortest_route, shortest_cost,
                    generation, tournament_population, parents, offspring, i,
                    pc, err >>

\* Line 109 and line 127.
initialise_population_return ==
    /\ pc = "initialise_population"
    /\ ~(Len(population) < population_size)
    /\ pc' = "while"
    /\ UNCHANGED << config_vars, ops_vars, city_list, shortest_route,
                    shortest_cost, generation, population,
                    tournament_population, parents, offspring, i, err >>

\* Line 130, then line 133 (the call, with line 95) or lines 178-179.
while_generation ==
    /\ pc = "while"
    /\ IF generation <= termination_max_generations
       THEN /\ pc' = "tournament_selection"
            /\ tournament_population' = <<>>
       ELSE /\ pc' = "return"
            /\ UNCHANGED tournament_population
    /\ UNCHANGED << config_vars, ops_vars, city_list, shortest_route,
                    shortest_cost, generation, population, parents, offspring,
                    i, err >>

\* Lines 96-98: one pass of the loop of tournament_selection. random.random()
\* is below 1, so line 100 is never run. random.sample raises ValueError when
\* asked for more routes than there are; selection[0] of an empty sample
\* raises IndexError.
tournament_selection_step ==
    /\ pc = "tournament_selection"
    /\ Len(tournament_population) < population_size
    /\ IF selection_size > Len(population) \/ selection_size < 0
       THEN Raise("ValueError") /\ UNCHANGED tournament_population
       ELSE IF selection_size = 0
       THEN Raise("IndexError") /\ UNCHANGED tournament_population
       ELSE /\ \E selection \in RandomSample(population, selection_size) :
                 tournament_population' =
                     Append(tournament_population,
                            tournament_select_route(cities_map, selection))
            /\ UNCHANGED << pc, err >>
    /\ UNCHANGED << config_vars, ops_vars, city_list, shortest_route,
                    shortest_cost, generation, population, parents, offspring,
                    i >>

\* Line 101, the assignment of line 133, and lines 136-137.
tournament_selection_return ==
    /\ pc = "tournament_selection"
    /\ ~(Len(tournament_population) < population_size)
    /\ parents' = tournament_population
    /\ offspring' = <<>>
    /\ i' = 0
    /\ pc' = "offspring"
    /\ UNCHANGED << config_vars, ops_vars, city_list, shortest_route,
                    shortest_cost, generation, population,
                    tournament_population, err >>

\* Lines 138-142: the offspring loop.
generate_offspring ==
    /\ pc = "offspring"
    /\ \E o \in OffspringLoop(parents, recombination_probability, 0, <<>>) :
         /\ i' = o.i
         /\ offspring' = o.val
         /\ IF o.err # ""
            THEN Raise(o.err)
            ELSE pc' = "mutate" /\ UNCHANGED err
    /\ UNCHANGED << config_vars, ops_vars, city_list, shortest_route,
                    shortest_cost, generation, population,
                    tournament_population, parents >>

\* Lines 145-149: the mutation loop over the offspring (its counter is not
\* read again).
mutate_offspring ==
    /\ pc = "mutate"
    /\ \E m \in MutationPass(offspring, mutation_probability) :
         IF m.err # ""
         THEN Raise(m.err) /\ UNCHANGED offspring
         ELSE offspring' = m.val /\ pc' = "survivors" /\ UNCHANGED err
    /\ i' = 0
    /\ UNCHANGED << config_vars, ops_vars, city_list, shortest_route,
                    shortest_cost, generation, population,
                    tournament_population, parents >>

\* Lines 152-175: survivor selection, the best of the generation, the update
\* of the best so far, the generation counter. new_population[0] of an empty
\* list raises IndexError.
survivor_selection ==
    /\ pc = "survivors"
    /\ LET new_population ==
               survivors(parents, offspring, cities_map, population_size)
       IN IF new_population = <<>>
          THEN /\ Raise("IndexError")
               /\ UNCHANGED << population, shortest_route, shortest_cost,
                               generation >>
          ELSE LET new_cost == get_cost_of_route(new_population[1], cities_map)
               IN /\ population' = new_population
                  /\ IF improves(new_cost, shortest_cost)
                     THEN /\ shortest_cost' = new_cost
                          /\ shortest_route' =
                                 [alias |-> FALSE, val |-> new_population[1]]
                     ELSE UNCHANGED << shortest_route, shortest_cost >>
                  /\ generation' = generation + 1
                  /\ pc' = "while"
                  /\ UNCHANGED err
    /\ UNCHANGED << config_vars, ops_vars, city_list, tournament_population,
                    parents, offspring, i >>

Next ==
    \/ initialise_population_step
    \/ initialise_population_return
    \/ while_generation
    \/ tournament_selection_step
    \/ tournament_selection_return
    \/ generate_offspring
    \/ mutate_offspring
    \/ survivor_selection

Spec == Init /\ [][Next]_vars

(***************************************************************************)
(* The loop of initialise_population on its own. A sequential program keeps *)
(* running its loop (weak fairness), and a uniform shuffle that can produce *)
(* a new route at every pass does produce one in the end (strong fairness   *)
(* of the appending pass).                                                  *)
(***************************************************************************)
AppendNewRoute ==
    /\ initialise_population_step
    /\ Len(population') > Len(population)

NextInit ==
    \/ initialise_population_step
    \/ initialise_population_return

SpecInit ==
    /\ Init
    /\ [][NextInit]_vars
    /\ WF_vars(NextInit)
    /\ SF_vars(AppendNewRoute)

(***************************************************************************)
(* The route operators on arbitrary permutations of 0..n-1                 *)
(***************************************************************************)
evolution_vars == << config_vars, city_list, shortest_route, shortest_cost,
                     generation, population, tournament_population, parents,
                     offspring, i, pc >>

InitOps ==
    /\ \E n \in 1..MaxN :
         /\ route1 \in RandomShuffle([k \in 1..n |-> k - 1])
         /\ route2 \in RandomShuffle([k \in 1..n |-> k - 1])
    /\ op = "none"
    /\ first = 0
    /\ last = 0
    /\ new_route = <<>>
    /\ err = ""
    /\ pc = "ops"
    /\ cities_map = <<>>
    /\ city_list = <<>>
    /\ population_size = 0
    /\ selection_size = 0
    /\ termination_max_generations = 0
    /\ mutation_probability = 0
    /\ recombination_probability = 0
    /\ shortest_route = [alias |-> TRUE, val |-> <<>>]
    /\ shortest_cost = 0
    /\ generation = 1
    /\ population = <<>>
    /\ tournament_population = <<>>
    /\ parents = <<>>
    /\ offspring = <<>>
    /\ i = 0

\* generate_random_route(route1): route1 is changed in place and returned
apply_generate_random_route ==
    /\ pc = "ops"
    /\ op = "none"
    /\ \E r \in generate_random_route(route1) :
         /\ route1' = r
         /\ new_route' = r
    /\ op' = "generate_random_route"
    /\ UNCHANGED << evolution_vars, err, route2, first, last >>

\* two_opt_swap(route1): random.sample(range(0, len(route)), 2) gives the two
\* positions (in first, last here), and raises ValueError below two cities
apply_two_opt_swap ==
    /\ pc = "ops"
    /\ op = "none"
    /\ op' = "two_opt_swap"
    /\ IF Len(route1) < 2
       THEN err' = "ValueError" /\ UNCHANGED << first, last, new_route >>
       ELSE /\ \E random_cities \in DistinctSeqs(0..(Len(route1) - 1), 2) :
                 /\ first' = random_cities[1]
                 /\ last' = random_cities[2]
                 /\ new_route' = two_opt_swap(route1, random_cities[1],
                                              random_cities[2])
            /\ UNCHANGED err
    /\ UNCHANGED << evolution_vars, route1, route2 >>

\* order_one_crossover(route1, route2), lines 74-75 drawing the cut points
apply_order_one_crossover ==
    /\ pc = "ops"
    /\ op = "none"
    /\ op' = "order_one_crossover"
    /\ \E f \in 0..(Len(route1) - 1) :
         \E l \in (f + 1)..Len(route1) :
            /\ first' = f
            /\ last' = l
            /\ new_route' = order_one_crossover(route1, route2, f, l)
    /\ UNCHANGED << evolution_vars, err, route1, route2 >>

NextOps ==
    \/ apply_generate_random_route
    \/ apply_two_opt_swap
    \/ apply_order_one_crossover

SpecOps == InitOps /\ [][NextOps]_vars

\* evolution() and the operators together: every route the program makes
InitRoutes == Init \/ InitOps

NextRoutes == Next \/ NextOps

SpecRoutes == InitRoutes /\ [][NextRoutes]_vars

(***************************************************************************)
(* Properties                                                              *)
(***************************************************************************)
NCities == Len(cities_map)

IsPermutation(route, n) ==
    /\ Len(route) = n
    /\ Range(route) = 0..(n - 1)

\* the lowest cost among routes (a non-empty list)
MinCost(routes, cmap) ==
    LET costs == { get_cost_of_route(routes[k], cmap) : k \in 1..Len(routes) }
    IN CHOOSE c \in costs : \A d \in costs : c <= d

InitialCost == get_cost_of_route(get_list_of_cities(cities_map), cities_map)

\* the configuration surface: sizes, generations and rates in range
ValidConfig ==
    /\ population_size > 0
    /\ 1 <= selection_size
    /\ selection_size <= population_size
    /\ termination_max_generations > 0
    /\ mutation_probability \in 0..10
    /\ recombination_probability \in 0..10

\* at least population_size different routes can be generated
EnoughTours ==
    Cardinality(generate_random_route(get_list_of_cities(cities_map)))
        >= population_size

GenerationEnded == pc = "survivors" /\ pc' = "while"

\* every route of the population, of the parent pool and of the offspring
\* list of evolution() is a permutation of 0..N-1
EvolutionRoutesArePermutations ==
    \A routes \in { population, tournament_population, parents, offspring } :
        \A k \in 1..Len(routes) : IsPermutation(routes[k], NCities)

\* C1: every route that generate_random_route, two_opt_swap (on a permutation)
\* or order_one_crossover (on two permutations) produces is a permutation of
\* 0..N-1 (length N, every city once), and so is every route of the
\* population, the parent pool and the offspring list in evolution().
C1_PermutationInvariant ==
    /\ (op # "none" /\ err = "") =>
          /\ IsPermutation(new_route, Len(route2))
          /\ IsPermutation(route1, Len(route2))
    /\ EvolutionRoutesArePermutations

C1_Witness ==
    /\ op = "order_one_crossover"
    /\ Len(new_route) > 2
    /\ new_route # route1
    /\ new_route # route2
    /\ first > 0

\* C2: shortest_cost never increases from one step to the next; it changes
\* only at the end of a generation whose new population's lowest cost is
\* strictly below it, and then it becomes exactly that cost.
C2_BestSoFarMonotone ==
    [][ /\ shortest_cost' <= shortest_cost
        /\ (shortest_cost' # shortest_cost =>
              /\ GenerationEnded
              /\ MinCost(population', cities_map) < shortest_cost
              /\ shortest_cost' = MinCost(population', cities_map)) ]_vars

\* a later population is worse than the best so far, which was kept
C2_Witness ==
    /\ pc = "return"
    /\ generation > 2
    /\ shortest_cost < InitialCost
    /\ MinCost(population, cities_map) > shortest_cost

\* C3, as claimed: the lowest cost in the population never increases from one
\* generation to the next, whatever the random draws.
C3_PopulationBestNeverRegresses ==
    [][ GenerationEnded =>
          MinCost(population', cities_map) <= MinCost(population, cities_map)
      ]_vars

\* C3, amended: the new population's first route is its best, and its cost is
\* at most the lowest cost in the parent pool of that generation; hence it is
\* at most the previous population's lowest cost whenever a tournament
\* selected a route of that cost.
C3_BestParentSurvives ==
    [][ GenerationEnded =>
          /\ get_cost_of_route(population'[1], cities_map)
                 = MinCost(population', cities_map)
          /\ MinCost(population', cities_map) <= MinCost(parents, cities_map)
          /\ (MinCost(parents, cities_map) = MinCost(population, cities_map)
                => MinCost(population', cities_map)
                       <= MinCost(population, cities_map))
      ]_vars

\* the best so far came from an earlier population and the current one is
\* worse: the population's best has regressed
C3_Witness ==
    /\ pc = "while"
    /\ generation > 1
    /\ ~shortest_route.alias
    /\ MinCost(population, cities_map) > shortest_cost
    /\ MinCost(population, cities_map) = MinCost(parents, cities_map)

\* C4: at every generation boundary and at return, the cost of the route
\* stored as shortest_route is the stored shortest_cost.
C4_BestSoFarConsistent ==
    pc \in {"while", "return"} =>
        get_cost_of_route(ShortestRoute, cities_map) = shortest_cost

\* C5: with a valid configuration, at least two cities and enough different
\* routes, the run never ends in an error; the generation counter stays in
\* 1..max_generations+1 and the run returns after exactly max_generations
\* passes of the loop.
C5_RunLifecycle ==
    (ValidConfig /\ NCities >= 2 /\ EnoughTours) =>
        /\ pc # "error"
        /\ generation \in 1..(termination_max_generations + 1)
        /\ (pc = "return" => generation = termination_max_generations + 1)

\* C6, as claimed: the child's slice [first:last] is route1[first:last].
C6_SegmentInPlace ==
    op = "order_one_crossover" =>
        PySlice(new_route, first, last) = PySlice(route1, first, last)

\* C6, amended: the child's leading slice [0:last-first] is
\* route1[first:last]: the copied segment opens the child.
C6_SegmentLeads ==
    op = "order_one_crossover" =>
        PySlice(new_route, 0, last - first) = PySlice(route1, first, last)

C6_Witness ==
    /\ op = "order_one_crossover"
    /\ first > 0
    /\ last - first > 1
    /\ route1 # route2
    /\ PySlice(new_route, first, last) # PySlice(route1, first, last)

\* C7: with tournament_size > population_size, population_size <= 0,
\* max_generations <= 0 or a rate outside [0, 1], no generation step runs and
\* the run does not return normally.
C7_InvalidConfigFailsFast ==
    ( \/ selection_size > population_size
      \/ population_size <= 0
      \/ termination_max_generations <= 0
      \/ mutation_probability \notin 0..10
      \/ recombination_probability \notin 0..10 ) =>
        pc \notin {"tournament_selection", "offspring", "mutate", "survivors",
                   "return"}

\* C8: with one city and a valid configuration the run raises nothing and
\* returns the route [0] with cost 0.
C8_SingleCity ==
    (NCities = 1 /\ ValidConfig) =>
        /\ pc # "error"
        /\ (pc = "return" => ShortestRoute = << 0 >> /\ shortest_cost = 0)

\* C9: initialise_population eventually returns, with population_size routes,
\* also when fewer different routes exist. Checked under SpecInit.
C9_InitialisationTerminates ==
    <>(pc = "while" /\ Len(population) = population_size)

\* C10: after the offspring loop the offspring list holds one route for each
\* of the 3 * len(parents) slots, and the loop raises nothing.
C10_EverySlotFilled ==
    /\ pc \in {"mutate", "survivors"} => Len(offspring) = 3 * Len(parents)
    /\ err # "NameError"

====
